---- MODULE Spec2Model ----
(***************************************************************************)
(* CNNNetworkIterator (openvino/include/details/ie_cnn_network_iterator.hpp)*)
(* A forward iterator over the layers of an ICNNNetwork: breadth-first,    *)
(* seeded from the first consumer of the first input, expanding children   *)
(* (outData -> getInputTo) and parents (insData -> getCreatorLayer).       *)
(***************************************************************************)
EXTENDS Integers, Sequences, FiniteSets, TLC

(* ------------------------------ bounds --------------------------------- *)
\* layers of an enumerated network
MaxLayers == 2
\* Data objects (edges) of an enumerated network
MaxData == 2
\* Advance calls allowed beyond the number of layers of the network
ExtraAdvances == 1

(* --------------------------- the heap of networks ---------------------- *)
\* A network is a record
\*   nL      : number of layers, named 1..nL in the order of their names
\*   creator : creator[d] is the layer index Data d was created by, 0 if none
\*   inputTo : inputTo[d] is the set of layer indexes reading Data d
\*   inputs  : the Data of the InputsDataMap, in the order of the map
\* Data::getInputTo() is a std::map keyed by the consumer's name, so it is
\* enumerated in layer index order.  A layer's outData lists the Data it
\* created and its insData the Data it reads, both in Data index order.
VARIABLES
    nets,      \* nets[n]: the network with identity n
    it,        \* it[i]: the iterator object i (the four members of the class)
    src,       \* src[i]: -1 not constructed, 0 default constructed, n from nets[n]
    advances,  \* advances[i]: operator++ calls made on iterator i
    emitted,   \* emitted[i]: the non-null values currentLayer has taken, in order
    last,      \* outcome of the last const operation (operator*, ==, !=)
    pc         \* position of the caller's range loop, "free" outside such a loop

vars == <<nets, it, src, advances, emitted, last, pc>>

NetIds == {1, 2}
ItIds == {1, 2}

\* nullptr for ICNNNetwork*
NullNet == 0
\* nullptr for CNNLayerPtr; a layer handle is <<network, index>>
NullLayer == <<0, 0>>

DataOf(g) == 1 .. Len(g.creator)

RECURSIVE SortedSeq(_)
SortedSeq(S) ==
    IF S = {} THEN <<>>
    ELSE LET m == CHOOSE x \in S : \A y \in S : x <= y
         IN <<m>> \o SortedSeq(S \ {m})

\* CNNLayer::outData of layer <<n, l>>
outData(layer) ==
    LET g == nets[layer[1]]
    IN SortedSeq({ d \in DataOf(g) : g.creator[d] = layer[2] })

\* CNNLayer::insData of layer <<n, l>>; the Data live as long as the network,
\* so parent.lock() is never null
insData(layer) ==
    LET g == nets[layer[1]]
    IN SortedSeq({ d \in DataOf(g) : layer[2] \in g.inputTo[d] })

\* Data::getInputTo(), the consumers in map order
getInputTo(n, d) ==
    LET s == SortedSeq(nets[n].inputTo[d])
    IN [k \in 1 .. Len(s) |-> <<n, s[k]>>]

\* Data::getCreatorLayer().lock()
getCreatorLayer(n, d) ==
    IF nets[n].creator[d] = 0 THEN NullLayer ELSE <<n, nets[n].creator[d]>>

(* ------------------------------ the iterator --------------------------- *)
\* CNNNetworkIterator() = default
DefaultIterator ==
    [visited |-> {}, nextLayersTovisit |-> <<>>,
     currentLayer |-> NullLayer, network |-> NullNet]

\* variant: the constructor records the network it was given
IteratorKeepingNetwork(n) ==
    LET inputs == nets[n].inputs
        nextLayers == IF inputs # <<>> THEN getInputTo(n, Head(inputs)) ELSE <<>>
    IN IF nextLayers # <<>>
       THEN [visited |-> {Head(nextLayers)},
             nextLayersTovisit |-> <<Head(nextLayers)>>,
             currentLayer |-> Head(nextLayers), network |-> n]
       ELSE [DefaultIterator EXCEPT !.network = n]

\* variant: the seed is queued but not inserted into visited
IteratorSeedNotVisited(n) ==
    LET inputs == nets[n].inputs
        nextLayers == IF inputs # <<>> THEN getInputTo(n, Head(inputs)) ELSE <<>>
    IN IF nextLayers # <<>>
       THEN [visited |-> {}, nextLayersTovisit |-> <<Head(nextLayers)>>,
             currentLayer |-> Head(nextLayers), network |-> NullNet]
       ELSE DefaultIterator

\* variant: every consumer of the first input is queued
IteratorSeedingAllConsumers(n) ==
    LET inputs == nets[n].inputs
        nextLayers == IF inputs # <<>> THEN getInputTo(n, Head(inputs)) ELSE <<>>
    IN IF nextLayers # <<>>
       THEN [visited |-> { nextLayers[k] : k \in DOMAIN nextLayers },
             nextLayersTovisit |-> nextLayers,
             currentLayer |-> Head(nextLayers), network |-> NullNet]
       ELSE DefaultIterator

\* CNNNetworkIterator(ICNNNetwork * network): the parameter hides the member
\* of the same name, which keeps its initializer nullptr.
CNNNetworkIterator(n) ==
    LET inputs == nets[n].inputs
    IN IF inputs # <<>>
       THEN LET nextLayers == getInputTo(n, Head(inputs))
            IN IF nextLayers # <<>>
               THEN [visited |-> {Head(nextLayers)},
                     nextLayersTovisit |-> <<Head(nextLayers)>>,
                     currentLayer |-> Head(nextLayers),
                     network |-> NullNet]
               ELSE DefaultIterator
       ELSE DefaultIterator

\* variant: the layer is queued whether or not it was visited
VisitAlways(st, layer) ==
    [q |-> Append(st.q, layer), v |-> st.v \cup {layer}]

\* variant: push_front in place of push_back
VisitIfNewFront(st, layer) ==
    IF layer \notin st.v
    THEN [q |-> <<layer>> \o st.q, v |-> st.v \cup {layer}]
    ELSE st

\* if (visited.find(l) == visited.end()) { push_back(l); insert(l); }
\* on the pair st = [q |-> nextLayersTovisit, v |-> visited]
VisitIfNew(st, layer) ==
    IF layer \notin st.v
    THEN [q |-> Append(st.q, layer), v |-> st.v \cup {layer}]
    ELSE st

RECURSIVE VisitAll(_, _)
VisitAll(st, layers) ==
    IF layers = <<>> THEN st
    ELSE VisitAll(VisitIfNew(st, Head(layers)), Tail(layers))

\* for (output : nextLayer->outData) for (child : output->getInputTo())
RECURSIVE VisitChildren(_, _, _)
VisitChildren(st, n, outs) ==
    IF outs = <<>> THEN st
    ELSE VisitChildren(VisitAll(st, getInputTo(n, Head(outs))), n, Tail(outs))

\* variant: the parents are not expanded
VisitParentsSkipped(st, n, ins) == st

\* for (parent : nextLayer->insData): parentLayer && not visited
RECURSIVE VisitParents(_, _, _)
VisitParents(st, n, ins) ==
    IF ins = <<>> THEN st
    ELSE LET parentLayer == getCreatorLayer(n, Head(ins))
         IN VisitParents(IF parentLayer # NullLayer
                         THEN VisitIfNew(st, parentLayer) ELSE st,
                         n, Tail(ins))

\* return nextLayersTovisit.empty() ? nullptr : nextLayersTovisit.front();
FrontOrNull(q) == IF q = <<>> THEN NullLayer ELSE Head(q)

\* variant: the layer taken off the list is returned
nextReturningPopped(c) ==
    IF c.nextLayersTovisit = <<>>
    THEN [visited |-> c.visited, nextLayersTovisit |-> <<>>, result |-> NullLayer]
    ELSE LET nextLayer == Head(c.nextLayersTovisit)
             popped == [q |-> Tail(c.nextLayersTovisit), v |-> c.visited]
             kids == VisitChildren(popped, nextLayer[1], outData(nextLayer))
             both == VisitParents(kids, nextLayer[1], insData(nextLayer))
         IN [visited |-> both.v, nextLayersTovisit |-> both.q,
             result |-> nextLayer]

\* variant: the value to return is taken right after pop_front, before the
\* children and parents are queued
nextResultBeforeExpansion(c) ==
    IF c.nextLayersTovisit = <<>>
    THEN [visited |-> c.visited, nextLayersTovisit |-> <<>>, result |-> NullLayer]
    ELSE LET nextLayer == Head(c.nextLayersTovisit)
             popped == [q |-> Tail(c.nextLayersTovisit), v |-> c.visited]
             kids == VisitChildren(popped, nextLayer[1], outData(nextLayer))
             both == VisitParents(kids, nextLayer[1], insData(nextLayer))
         IN [visited |-> both.v, nextLayersTovisit |-> both.q,
             result |-> FrontOrNull(popped.q)]

\* CNNNetworkIterator::next(): the members after the call and the value returned
next(c) ==
    IF c.nextLayersTovisit = <<>>
    THEN [visited |-> c.visited, nextLayersTovisit |-> <<>>, result |-> NullLayer]
    ELSE LET nextLayer == Head(c.nextLayersTovisit)
             popped == [q |-> Tail(c.nextLayersTovisit), v |-> c.visited]
             kids == VisitChildren(popped, nextLayer[1], outData(nextLayer))
             both == VisitParents(kids, nextLayer[1], insData(nextLayer))
         IN [visited |-> both.v, nextLayersTovisit |-> both.q,
             result |-> FrontOrNull(both.q)]

\* operator++(): currentLayer = next()
Increment(c) ==
    LET r == next(c)
    IN [visited |-> r.visited, nextLayersTovisit |-> r.nextLayersTovisit,
        currentLayer |-> r.result, network |-> c.network]

\* variant: the value of next() is dropped
IncrementDroppingResult(c) ==
    LET r == next(c)
    IN [visited |-> r.visited, nextLayersTovisit |-> r.nextLayersTovisit,
        currentLayer |-> c.currentLayer, network |-> c.network]

\* operator++(int): currentLayer = next()
IncrementPost(c) ==
    LET r == next(c)
    IN [visited |-> r.visited, nextLayersTovisit |-> r.nextLayersTovisit,
        currentLayer |-> r.result, network |-> c.network]

\* variant: the visited sets are compared too
EqWithVisited(a, b) ==
    a.network = b.network /\ a.currentLayer = b.currentLayer /\ a.visited = b.visited

\* variant: a null currentLayer equals nothing
EqNullNeverEqual(a, b) ==
    /\ a.network = b.network
    /\ a.currentLayer # NullLayer
    /\ a.currentLayer = b.currentLayer

\* variant: only the networks are compared
EqNetworkOnly(a, b) == a.network = b.network

\* operator==
OperatorEq(a, b) == a.network = b.network /\ a.currentLayer = b.currentLayer

\* variant: the negation is missing
NeNotNegated(a, b) == OperatorEq(a, b)

\* operator!=
OperatorNe(a, b) == ~OperatorEq(a, b)

\* variant: no null check
DerefUnchecked(c) == [threw |-> FALSE, value |-> c.currentLayer]

\* operator*: throws when currentLayer is null, else returns currentLayer
OperatorDeref(c) ==
    IF NullLayer = c.currentLayer
    THEN [threw |-> TRUE, value |-> NullLayer]
    ELSE [threw |-> FALSE, value |-> c.currentLayer]

(* ----------------------------- the networks ---------------------------- *)
\* the InputsDataMap: empty, one Data, or a Data followed by another one
InputSeqs(nd) ==
    {<<>>} \cup { <<d>> : d \in 1 .. nd }
           \cup { <<d, IF d = 1 THEN 2 ELSE 1>> :
                      d \in IF nd >= 2 THEN 1 .. nd ELSE {} }

RECURSIVE SetCode(_)
SetCode(S) ==
    IF S = {} THEN 0
    ELSE LET m == CHOOSE x \in S : \A y \in S : x <= y
         IN 2 ^ (m - 1) + SetCode(S \ {m})

\* every network of nl layers and nd Data, the Data numbered by creator and,
\* for one creator, by consumer set (outData and insData follow that numbering)
GraphsOf(nl, nd) ==
    { [nL |-> nl, creator |-> ct[1], inputTo |-> ct[2], inputs |-> i] :
        ct \in { x \in [1 .. nd -> 0 .. nl] \X [1 .. nd -> SUBSET (1 .. nl)] :
                   \A d \in 1 .. nd - 1 :
                       x[1][d] * 2 ^ nl + SetCode(x[2][d])
                           <= x[1][d + 1] * 2 ^ nl + SetCode(x[2][d + 1]) },
        i \in InputSeqs(nd) }

\* input I feeds A; A outputs to B and C; B and C both output to D
\* layers A, B, C, D = 1, 2, 3, 4; Data I, A.out, B.out, C.out = 1, 2, 3, 4
Diamond ==
    [nL |-> 4, creator |-> <<0, 1, 2, 3>>,
     inputTo |-> <<{1}, {2, 3}, {4}, {4}>>, inputs |-> <<1>>]

Graphs == GraphsOf(MaxLayers, MaxData) \cup {Diamond}

(* ------------------------------ operations ----------------------------- *)
NoOp == [op |-> "none"]

Emit(e, layer) == IF layer = NullLayer THEN e ELSE Append(e, layer)

\* CNNNetworkIterator it(network)
Construct(i, n) ==
    /\ src[i] = -1
    /\ it' = [it EXCEPT ![i] = CNNNetworkIterator(n)]
    /\ src' = [src EXCEPT ![i] = n]
    /\ emitted' = [emitted EXCEPT ![i] = Emit(<<>>, it'[i].currentLayer)]
    /\ last' = NoOp
    /\ UNCHANGED <<nets, advances>>

\* the model stops counting after ExtraAdvances calls on an exhausted iterator
AdvanceAllowed(i) ==
    /\ src[i] # -1
    /\ advances[i] < Len(emitted[i]) + ExtraAdvances
    /\ advances[i] < (IF src[i] = 0 THEN 0 ELSE nets[src[i]].nL) + ExtraAdvances

\* variant: the consumers are moved out of the outData of the expanded layer
AdvancedConsumingOutData(i) ==
    /\ it' = [it EXCEPT ![i] = Increment(it[i])]
    /\ advances' = [advances EXCEPT ![i] = @ + 1]
    /\ emitted' = [emitted EXCEPT ![i] = Emit(@, it'[i].currentLayer)]
    /\ last' = NoOp
    /\ nets' = IF it[i].nextLayersTovisit = <<>> THEN nets
               ELSE LET nextLayer == Head(it[i].nextLayersTovisit)
                        g == nets[nextLayer[1]]
                    IN [nets EXCEPT ![nextLayer[1]].inputTo =
                           [d \in DataOf(g) |->
                               IF g.creator[d] = nextLayer[2] THEN {}
                               ELSE g.inputTo[d]]]
    /\ UNCHANGED src

\* variant: visited and nextLayersTovisit are shared by all iterators
AdvancedSharingMembers(i) ==
    /\ it' = [j \in ItIds |->
                IF j = i THEN Increment(it[i])
                ELSE [it[j] EXCEPT
                        !.visited = Increment(it[i]).visited,
                        !.nextLayersTovisit = Increment(it[i]).nextLayersTovisit]]
    /\ advances' = [advances EXCEPT ![i] = @ + 1]
    /\ emitted' = [emitted EXCEPT ![i] = Emit(@, it'[i].currentLayer)]
    /\ last' = NoOp
    /\ UNCHANGED <<nets, src>>

\* ++it
Advanced(i) ==
    /\ it' = [it EXCEPT ![i] = Increment(it[i])]
    /\ advances' = [advances EXCEPT ![i] = @ + 1]
    /\ emitted' = [emitted EXCEPT ![i] = Emit(@, it'[i].currentLayer)]
    /\ last' = NoOp
    /\ UNCHANGED <<nets, src>>

\* ++it, seen from the caller
PreIncrement(i) ==
    /\ pc = "free"
    /\ AdvanceAllowed(i)
    /\ Advanced(i)
    /\ UNCHANGED pc

\* it++, seen from the caller
PostIncrement(i) ==
    /\ pc = "free"
    /\ AdvanceAllowed(i)
    /\ it' = [it EXCEPT ![i] = IncrementPost(it[i])]
    /\ advances' = [advances EXCEPT ![i] = @ + 1]
    /\ emitted' = [emitted EXCEPT ![i] = Emit(@, it'[i].currentLayer)]
    /\ last' = NoOp
    /\ UNCHANGED <<nets, src, pc>>

\* *it
Dereference(i) ==
    /\ pc = "free"
    /\ src[i] # -1
    /\ last' = [op |-> "*", it |-> i, threw |-> OperatorDeref(it[i]).threw,
                value |-> OperatorDeref(it[i]).value]
    /\ UNCHANGED <<nets, it, src, advances, emitted, pc>>

\* a == b and a != b
Compare(i, j) ==
    /\ pc = "free"
    /\ src[i] # -1 /\ src[j] # -1
    /\ last' = [op |-> "==", it |-> i, that |-> j,
                eq |-> OperatorEq(it[i], it[j]), ne |-> OperatorNe(it[i], it[j])]
    /\ UNCHANGED <<nets, it, src, advances, emitted, pc>>

(* ---- one iterator over one network; it[2] is the end iterator -------- *)
InitWith(graphs, src2, pc0) ==
    /\ \E g \in graphs : nets = [n \in NetIds |-> g]
    /\ it = [i \in ItIds |-> DefaultIterator]
    /\ src = [i \in ItIds |-> IF i = 1 THEN -1 ELSE src2]
    /\ advances = [i \in ItIds |-> 0]
    /\ emitted = [i \in ItIds |-> <<>>]
    /\ last = NoOp
    /\ pc = pc0

Init == InitWith(Graphs, 0, "free")

Begin == pc = "free" /\ Construct(1, 1) /\ UNCHANGED pc

Next ==
    \/ Begin
    \/ PreIncrement(1)
    \/ PostIncrement(1)
    \/ Dereference(1)

Spec == Init /\ [][Next]_vars

(* ---- the range loop: for (it = begin; it != end; ++it) { read it } ---- *)
InitLoop == InitWith(Graphs, 0, "begin")

LoopBegin ==
    /\ pc = "begin"
    /\ Construct(1, 1)
    /\ pc' = "test"

LoopTest ==
    /\ pc = "test"
    /\ pc' = IF OperatorNe(it[1], it[2]) THEN "deref" ELSE "done"
    /\ last' = [op |-> "==", it |-> 1, that |-> 2,
                eq |-> OperatorEq(it[1], it[2]), ne |-> OperatorNe(it[1], it[2])]
    /\ UNCHANGED <<nets, it, src, advances, emitted>>

LoopDeref ==
    /\ pc = "deref"
    /\ pc' = IF OperatorDeref(it[1]).threw THEN "thrown" ELSE "incr"
    /\ last' = [op |-> "*", it |-> 1, threw |-> OperatorDeref(it[1]).threw,
                value |-> OperatorDeref(it[1]).value]
    /\ UNCHANGED <<nets, it, src, advances, emitted>>

LoopIncrement ==
    /\ pc = "incr"
    /\ AdvanceAllowed(1)
    /\ Advanced(1)
    /\ pc' = "test"

NextLoop ==
    \/ LoopBegin
    \/ LoopTest
    \/ LoopDeref
    \/ LoopIncrement

SpecLoop == InitLoop /\ [][NextLoop]_vars

(* ---- two iterators, over the same network or over two networks -------- *)
\* nets[2] has the structure of nets[1] and its own layer objects
PairGraphs == GraphsOf(MaxLayers, MaxData - 1) \cup {Diamond}

InitPair == InitWith(PairGraphs, -1, "free")

Begin2 == pc = "free" /\ \E n \in NetIds : Construct(2, n) /\ UNCHANGED pc

NextPair ==
    \/ Begin
    \/ Begin2
    \/ PreIncrement(1)
    \/ PostIncrement(1)
    \/ PreIncrement(2)
    \/ PostIncrement(2)
    \/ Compare(1, 2)

SpecPair == InitPair /\ [][NextPair]_vars

(* ------------------- reference definitions for the claims -------------- *)
Range(s) == { s[k] : k \in DOMAIN s }

Terminal(i) == it[i].currentLayer = NullLayer

\* the consumers of the first entry point
FirstConsumers(g) == IF g.inputs = <<>> THEN {} ELSE g.inputTo[g.inputs[1]]

\* the first consumer of the first entry point of nets[n], NullLayer if none
SeedOf(n) ==
    LET fc == FirstConsumers(nets[n])
    IN IF fc = {} THEN NullLayer
       ELSE <<n, CHOOSE l \in fc : \A k \in fc : l <= k>>

\* a Data created by layer a is read by layer b
Linked(g, a, b) == \E d \in DataOf(g) : g.creator[d] = a /\ b \in g.inputTo[d]

RECURSIVE Closure(_, _)
Closure(g, S) ==
    LET T == S \cup { b \in 1 .. g.nL :
                        \E a \in S : Linked(g, a, b) \/ Linked(g, b, a) }
    IN IF T = S THEN S ELSE Closure(g, T)

\* the weakly connected component of the seed of nets[n]
Component(n) ==
    IF SeedOf(n) = NullLayer THEN {}
    ELSE { <<n, l>> : l \in Closure(nets[n], {SeedOf(n)[2]}) }

RECURSIVE AppendNew(_, _)
AppendNew(order, cands) ==
    IF cands = <<>> THEN order
    ELSE AppendNew(IF Head(cands) \in Range(order) THEN order
                   ELSE Append(order, Head(cands)), Tail(cands))

\* consumers of layer a, Data by Data, then its producers, Data by Data
RECURSIVE ConsumersFrom(_, _, _)
ConsumersFrom(g, a, d) ==
    IF d > Len(g.creator) THEN <<>>
    ELSE (IF g.creator[d] = a THEN SortedSeq(g.inputTo[d]) ELSE <<>>)
         \o ConsumersFrom(g, a, d + 1)

RECURSIVE ProducersFrom(_, _, _)
ProducersFrom(g, a, d) ==
    IF d > Len(g.creator) THEN <<>>
    ELSE (IF a \in g.inputTo[d] /\ g.creator[d] # 0 THEN <<g.creator[d]>> ELSE <<>>)
         \o ProducersFrom(g, a, d + 1)

RECURSIVE DiscoveryFrom(_, _, _)
DiscoveryFrom(g, order, p) ==
    IF p > Len(order) THEN order
    ELSE DiscoveryFrom(g,
             AppendNew(order, ConsumersFrom(g, order[p], 1)
                              \o ProducersFrom(g, order[p], 1)),
             p + 1)

\* the layers of nets[n] in the order in which they are discovered from the seed
Discovery(n) ==
    IF SeedOf(n) = NullLayer THEN <<>>
    ELSE LET ord == DiscoveryFrom(nets[n], <<SeedOf(n)[2]>>, 1)
         IN [k \in 1 .. Len(ord) |-> <<n, ord[k]>>]

IsPrefix(s, t) == Len(s) <= Len(t) /\ s = SubSeq(t, 1, Len(s))

OverNetwork(i) == src[i] \in NetIds

(* --------------------------------- claims ------------------------------ *)
\* C1: when the first entry point has a consumer, the current nodes observed
\* from construction until the cursor is terminal are the nodes of the weakly
\* connected component of that first consumer, each exactly once, no others.
C1_VisitsComponentOnce ==
    \A i \in ItIds :
        (OverNetwork(i) /\ SeedOf(src[i]) # NullLayer) =>
            /\ Range(emitted[i]) \subseteq Component(src[i])
            /\ Cardinality(Range(emitted[i])) = Len(emitted[i])
            /\ Terminal(i) => Range(emitted[i]) = Component(src[i])

\* a traversal that ended after reaching a layer only through its insData
C1_Witness ==
    /\ src[1] = 1 /\ Terminal(1) /\ Len(emitted[1]) >= 2
    /\ \E k \in 2 .. Len(emitted[1]) :
           \A j \in 1 .. k - 1 :
               ~Linked(nets[1], emitted[1][j][2], emitted[1][k][2])

\* C2: a cursor over a network is terminal after at most as many Advance
\* calls as the network has nodes.
C2_TerminalWithinNodeCount ==
    \A i \in ItIds :
        (OverNetwork(i) /\ advances[i] >= nets[src[i]].nL) => Terminal(i)

\* every layer was the current node and the last Advance ended the traversal
C2_Witness ==
    /\ src[1] = 1 /\ Terminal(1)
    /\ advances[1] = nets[1].nL /\ Len(emitted[1]) = nets[1].nL

\* C3: constructed over a network with no entry point, or whose first entry
\* point has no consumer, the cursor is terminal with an empty frontier and
\* equals the default-constructed cursor before any Advance.
C3_EmptyStartIsEnd ==
    \A i \in ItIds :
        (OverNetwork(i) /\ advances[i] = 0 /\ FirstConsumers(nets[src[i]]) = {}) =>
            /\ it[i].currentLayer = NullLayer
            /\ it[i].nextLayersTovisit = <<>>
            /\ OperatorEq(it[i], DefaultIterator)
            /\ (last.op = "==" => last.eq /\ ~last.ne)

\* the comparison with the end iterator was made on such a cursor
C3_Witness ==
    /\ src[1] = 1 /\ advances[1] = 0 /\ nets[1].inputs # <<>>
    /\ FirstConsumers(nets[1]) = {}
    /\ last.op = "==" /\ last.eq

\* C4: a step taken from a terminal cursor leaves it terminal and equal to
\* the default-constructed cursor.
C4_TerminalStays ==
    [][\A i \in ItIds :
          (src[i] # -1 /\ it[i].currentLayer = NullLayer) =>
              /\ it'[i].currentLayer = NullLayer
              /\ OperatorEq(it'[i], DefaultIterator)]_vars

\* an exhausted traversal that was advanced again
C4_Witness ==
    /\ src[1] = 1 /\ emitted[1] # <<>> /\ Terminal(1)
    /\ advances[1] > Len(emitted[1])

\* C5: Dereference throws exactly when the current node is empty, and
\* otherwise returns the current node.
C5_DerefThrowsIffEmpty ==
    last.op = "*" =>
        /\ last.threw <=> it[last.it].currentLayer = NullLayer
        /\ ~last.threw => last.value = it[last.it].currentLayer

\* Dereference of an exhausted traversal
C5_Witness ==
    /\ last.op = "*" /\ last.threw
    /\ src[1] = 1 /\ emitted[1] # <<>>

\* C6: the loop that tests against the default-constructed cursor before
\* each Dereference never raises.
C6_LoopNeverThrows == pc # "thrown"

\* the loop ended by the equality test with layers left unreached
C6_Witness ==
    /\ pc = "done" /\ Len(emitted[1]) >= 1
    /\ Len(emitted[1]) < nets[1].nL

\* C7: Equality is true exactly when the network members and the current
\* nodes are the same; Inequality is its negation.
C7_EqualityFields ==
    last.op = "==" =>
        /\ last.eq <=> (/\ it[last.it].network = it[last.that].network
                        /\ it[last.it].currentLayer = it[last.that].currentLayer)
        /\ last.ne <=> ~last.eq

\* equal cursors whose visited sets differ
C7_Witness ==
    /\ last.op = "==" /\ last.eq
    /\ it[1].visited # it[2].visited

\* C8: two cursors over the same network are equal when they have the same
\* current node (or are both terminal), and after the same number of Advance
\* calls.
C8_SameNetworkEqual ==
    (src[1] = 1 /\ src[2] = 1) =>
        /\ it[1].currentLayer = it[2].currentLayer => OperatorEq(it[1], it[2])
        /\ advances[1] = advances[2] => OperatorEq(it[1], it[2])

\* both terminal after different numbers of Advance calls
C8_Witness ==
    /\ src[1] = 1 /\ src[2] = 1
    /\ emitted[1] # <<>> /\ Terminal(1) /\ Terminal(2)
    /\ advances[1] # advances[2]
    /\ OperatorEq(it[1], it[2])

\* C9: cursors over two different networks are equal only if both have an
\* empty current node and no network.
C9_DifferentNetworks ==
    (OverNetwork(1) /\ OverNetwork(2) /\ src[1] # src[2]
        /\ OperatorEq(it[1], it[2])) =>
        /\ it[1].currentLayer = NullLayer /\ it[2].currentLayer = NullLayer
        /\ it[1].network = NullNet /\ it[2].network = NullNet

\* both traversals exhausted
C9_Witness ==
    /\ src[1] = 1 /\ src[2] = 2
    /\ emitted[1] # <<>> /\ emitted[2] # <<>>
    /\ OperatorEq(it[1], it[2])

\* C10: the current nodes follow the discovery order (the seed, then for
\* each expanded node its new consumers and then its new producers); on the
\* diamond the order is A, B, C, D.
C10_DiscoveryOrder ==
    \A i \in ItIds :
        OverNetwork(i) =>
            /\ IsPrefix(emitted[i], Discovery(src[i]))
            /\ Terminal(i) => emitted[i] = Discovery(src[i])
            /\ (Terminal(i) /\ nets[src[i]] = Diamond) =>
                   emitted[i] = << <<src[i], 1>>, <<src[i], 2>>,
                                   <<src[i], 3>>, <<src[i], 4>> >>

\* the diamond, traversed to the end
C10_Witness ==
    /\ src[1] = 1 /\ nets[1] = Diamond /\ Terminal(1)
    /\ emitted[1] = << <<1, 1>>, <<1, 2>>, <<1, 3>>, <<1, 4>> >>

\* C11: no cursor operation changes the network (layers, Data, consumers,
\* producers, entry points).
C11_GraphUnchanged == [][nets' = nets]_vars

\* a traversal advanced twice and then dereferenced
C11_Witness ==
    /\ src[1] = 1 /\ advances[1] >= 2 /\ Len(emitted[1]) >= 2
    /\ last.op = "*"

\* the layers taken off the front of nextLayersTovisit so far
Popped(i) ==
    IF Terminal(i) THEN emitted[i]
    ELSE SubSeq(emitted[i], 1, Len(emitted[i]) - 1)

\* every layer put into nextLayersTovisit so far: the list only grows at the
\* back and shrinks at the front
Inserted(i) == Popped(i) \o it[i].nextLayersTovisit

NoDuplicates(s) == \A j, k \in DOMAIN s : s[j] = s[k] => j = k

\* C12: over one traversal every node is inserted into the frontier queue at
\* most once, and is in the visited set from the step that inserts it.
C12_InsertedAtMostOnce ==
    \A i \in ItIds :
        OverNetwork(i) =>
            /\ NoDuplicates(Inserted(i))
            /\ NoDuplicates(it[i].nextLayersTovisit)
            /\ Range(Inserted(i)) \subseteq it[i].visited

\* a finished traversal over a layer that reads its own output and a second
\* layer that is both its consumer and its producer
C12_Witness ==
    /\ src[1] = 1 /\ Terminal(1) /\ Len(emitted[1]) >= 2
    /\ \E a, b \in 1 .. nets[1].nL :
           /\ a # b
           /\ Linked(nets[1], a, a)
           /\ Linked(nets[1], a, b) /\ Linked(nets[1], b, a)

\* C13: the visited set is the emitted nodes together with the nodes in the
\* frontier queue, and it never loses an element.
C13_VisitedIsEmittedAndQueued ==
    /\ [](\A i \in ItIds :
            OverNetwork(i) =>
                /\ it[i].visited =
                       Range(emitted[i]) \cup Range(it[i].nextLayersTovisit)
                /\ Range(it[i].nextLayersTovisit) \subseteq it[i].visited)
    /\ [][\A i \in ItIds : it[i].visited \subseteq it'[i].visited]_vars

\* layers wait in the queue behind the current one
C13_Witness ==
    /\ src[1] = 1 /\ advances[1] >= 1
    /\ Len(it[1].nextLayersTovisit) >= 2

\* C14: a node with no path of node-to-node edges (in either direction) to
\* the first consumer of the first entry point is never emitted, nor queued.
C14_OnlySeedComponent ==
    \A i \in ItIds :
        OverNetwork(i) =>
            \A l \in 1 .. nets[src[i]].nL :
                <<src[i], l>> \notin Component(src[i]) =>
                    /\ <<src[i], l>> \notin Range(emitted[i])
                    /\ <<src[i], l>> \notin it[i].visited

\* the traversal ended without a layer that reads the first entry point, which
\* no layer created, and that also reads the second entry point
C14_Witness ==
    /\ src[1] = 1 /\ Terminal(1) /\ emitted[1] # <<>>
    /\ Len(nets[1].inputs) = 2
    /\ nets[1].creator[nets[1].inputs[1]] = 0
    /\ \E l \in FirstConsumers(nets[1]) :
           /\ l \in nets[1].inputTo[nets[1].inputs[2]]
           /\ <<1, l>> \notin Range(emitted[1])

\* C15: a cursor constructed over a network that has a current node holds
\* that network in its network member, unlike the default-constructed cursor.
C15_HoldsNetwork ==
    \A i \in ItIds :
        (OverNetwork(i) /\ ~Terminal(i)) =>
            /\ it[i].network = src[i]
            /\ it[i].network # DefaultIterator.network

\* C16: operator++() and operator++(int) leave the same currentLayer,
\* nextLayersTovisit and visited, from an active and from a terminal cursor.
C16_PrePostSameEffect ==
    \A i \in ItIds :
        src[i] # -1 => Increment(it[i]) = IncrementPost(it[i])

\* a cursor still active after two advances
C16_Witness ==
    /\ src[1] = 1 /\ advances[1] >= 2 /\ ~Terminal(1)

RECURSIVE HopsFrom(_, _, _, _)
HopsFrom(g, S, l, d) ==
    IF l \in S THEN d
    ELSE LET T == S \cup { b \in 1 .. g.nL :
                             \E a \in S : Linked(g, a, b) \/ Linked(g, b, a) }
         IN IF T = S THEN -1 ELSE HopsFrom(g, T, l, d + 1)

\* edges, followed in either direction, between the seed of its network and layer
Hops(layer) ==
    HopsFrom(nets[layer[1]], {SeedOf(layer[1])[2]}, layer[2], 0)

\* C17: nodes are emitted in non-decreasing order of their hop distance from
\* the seed over the undirected view of the network.
C17_BreadthFirst ==
    \A i \in ItIds :
        OverNetwork(i) =>
            \A j, k \in DOMAIN emitted[i] :
                j < k => /\ 0 <= Hops(emitted[i][j])
                         /\ Hops(emitted[i][j]) <= Hops(emitted[i][k])

\* a finished traversal that reached a layer two hops from the seed
C17_Witness ==
    /\ src[1] = 1 /\ Terminal(1)
    /\ \E k \in DOMAIN emitted[1] : Hops(emitted[1][k]) >= 2

RECURSIVE SoloRun(_, _)
SoloRun(c, k) == IF k = 0 THEN c ELSE SoloRun(Increment(c), k - 1)

RECURSIVE SoloEmitted(_, _)
SoloEmitted(c, k) ==
    IF k = 0 THEN Emit(<<>>, c.currentLayer)
    ELSE Emit(SoloEmitted(c, k - 1), SoloRun(c, k).currentLayer)

\* C18: whatever the interleaving of the calls on two cursors, each cursor
\* has the members and has emitted the nodes of a cursor advanced alone the
\* same number of times.
C18_Independent ==
    \A i \in ItIds :
        OverNetwork(i) =>
            /\ it[i] = SoloRun(CNNNetworkIterator(src[i]), advances[i])
            /\ emitted[i] = SoloEmitted(CNNNetworkIterator(src[i]), advances[i])

\* two cursors over one network, both advanced, one further than the other
C18_Witness ==
    /\ src[1] = 1 /\ src[2] = 1
    /\ advances[1] >= 1 /\ advances[2] > advances[1]
    /\ Len(emitted[2]) > Len(emitted[1])

\* C19: the current node is empty exactly when the frontier queue is empty,
\* and otherwise it is the front of the queue.
C19_CurrentIsFront ==
    \A i \in ItIds :
        src[i] # -1 =>
            /\ it[i].currentLayer = NullLayer <=> it[i].nextLayersTovisit = <<>>
            /\ it[i].nextLayersTovisit # <<>> =>
                   it[i].currentLayer = Head(it[i].nextLayersTovisit)

\* an advanced cursor whose current node was just read
C19_Witness ==
    /\ src[1] = 1 /\ advances[1] = 1 /\ ~Terminal(1)
    /\ last.op = "*" /\ ~last.threw

\* C20: two cursors over the same network that compare equal have the same
\* frontier queue and visited set, and so the same next advance and the same
\* dereference.
C20_EqualMeansSameState ==
    (src[1] = 1 /\ src[2] = 1 /\ OperatorEq(it[1], it[2])) =>
        /\ it[1].nextLayersTovisit = it[2].nextLayersTovisit
        /\ it[1].visited = it[2].visited
        /\ Increment(it[1]) = Increment(it[2])
        /\ OperatorDeref(it[1]) = OperatorDeref(it[2])

\* both cursors advanced to the same layer, with layers still queued
C20_Witness ==
    /\ src[1] = 1 /\ src[2] = 1
    /\ advances[1] >= 1 /\ ~Terminal(1)
    /\ Len(it[1].nextLayersTovisit) >= 2
    /\ OperatorEq(it[1], it[2])

====
